---- MODULE Spec2Model ----
(***************************************************************************)
(* Model of ReviewAnalyzerServer (src/server.py): an in-memory list of     *)
(* reviews served by one WSGI callable.  One action per request method;    *)
(* each action is the whole handler, from reading the request to the       *)
(* returned body.                                                          *)
(***************************************************************************)
EXTENDS Integers, Sequences, FiniteSets, TLC

\* ------------------------------------------------------------------ bounds
\* Largest store the model builds; also the size of the pool of review ids.
MaxReviews == 2

\* ------------------------------------------------------- values and inputs
\* Python's None, and a field that is not in the query string / form at all.
None == "<None>"
Absent == "<absent>"

VALID_LOCATIONS ==
    { "Albuquerque, New Mexico", "Carlsbad, California", "Chula Vista, California",
      "Colorado Springs, Colorado", "Denver, Colorado", "El Cajon, California",
      "El Paso, Texas", "Escondido, California", "Fresno, California",
      "La Mesa, California", "Las Vegas, Nevada", "Los Angeles, California",
      "Oceanside, California", "Phoenix, Arizona", "Sacramento, California",
      "Salt Lake City, Utah", "San Diego, California", "Tucson, Arizona" }

\* Raw field values a client sends.
LocationInputs == { Absent, "", "San Diego, California", "Nowhere" }
BodyInputs == { Absent, "", "good", "test" }
QueryLocations == { Absent, "", "Denver, Colorado", "San Diego, California" }
DateInputs ==
    { Absent, "2023-01-01", "2023-01-02 00:00:00", "2023-01-02T00:00:00Z", "not-a-date" }
OtherMethods == { "PUT", "DELETE" }

\* Readings of the wall clock taken by POST (days of January 2023).
Clock == { 1, 2 }

\* Values uuid.uuid4() can return.
UUIDs == 1 .. MaxReviews

\* parse_qs(...).get(key, [None])[0]: parse_qs drops blank values, so an
\* absent field and an empty one both read as None.
get_param(fields, key) ==
    IF fields[key] = Absent \/ fields[key] = "" THEN None ELSE fields[key]

\* Python truthiness of an optional string.
Truthy(x) == x # None /\ x # ""

\* datetime.now().strftime("%Y-%m-%d %H:%M:%S") for a clock reading.
strftime(t) ==
    CASE t = 1 -> "2023-01-01 00:00:00"
      [] t = 2 -> "2023-01-02 00:00:00"
      [] OTHER -> "2023-01-03 00:00:00"

\* pd.to_datetime on a string: a tz-naive or tz-aware instant, or ValueError.
to_datetime(s) ==
    CASE s = "2023-01-01"           -> [kind |-> "naive", t |-> 1]
      [] s = "2023-01-01 00:00:00"  -> [kind |-> "naive", t |-> 1]
      [] s = "2023-01-02 00:00:00"  -> [kind |-> "naive", t |-> 2]
      [] s = "2023-01-03 00:00:00"  -> [kind |-> "naive", t |-> 3]
      [] s = "2023-01-02T00:00:00Z" -> [kind |-> "aware", t |-> 2]
      [] OTHER                      -> [kind |-> "ValueError", t |-> 0]

\* sia.polarity_scores(text), scores scaled by 10000.
analyze_sentiment(review_body) ==
    CASE review_body = "good" -> [neg |-> 0, neu |-> 0, pos |-> 10000, compound |-> 4404]
      [] OTHER                -> [neg |-> 0, neu |-> 10000, pos |-> 0, compound |-> 0]

\* ------------------------------------------------------------------- state
VARIABLES
    reviews,    \* self.reviews
    issued,     \* ids uuid4 has produced so far (the loaded reviews' included)
    created,    \* the reviews answered with 201 Created so far
    before,     \* self.reviews when the last request entered the handler
    request,    \* the last request
    response    \* what the handler did for it: status, headers, returned body

vars == <<reviews, issued, created, before, request, response>>

NotStarted == "<start_response not called>"

SeedReview ==
    [ReviewId |-> 1, ReviewBody |-> "test", Location |-> "Denver, Colorado",
     Timestamp |-> "2023-01-01 00:00:00"]

\* load_reviews(): the store as read from data/reviews.csv.
load_reviews == { <<>>, <<SeedReview>> }

Init ==
    /\ reviews \in load_reviews
    /\ issued = { reviews[i].ReviewId : i \in 1 .. Len(reviews) }
    /\ created = {}
    /\ before = reviews
    /\ request = [method |-> "<none>"]
    /\ response = [status |-> NotStarted, headers |-> <<>>, body |-> None, raised |-> None]

\* ------------------------------------------------------------- GET handler
\* The location filter: exact string equality when a location was given.
LocationFilter(store, location) ==
    IF Truthy(location)
    THEN SelectSeq(store, LAMBDA review : review.Location = location)
    ELSE store

\* start_date / end_date when the parameter was not given (it stays None).
NoneDT == [kind |-> "None", t |-> 0]

\* Timestamp >= / <= on two parsed values: pandas refuses to order a tz-naive
\* against a tz-aware instant (TypeError).
CompareGE(a, b) ==
    IF a.kind # b.kind THEN "TypeError" ELSE IF a.t >= b.t THEN "True" ELSE "False"
CompareLE(a, b) ==
    IF a.kind # b.kind THEN "TypeError" ELSE IF a.t <= b.t THEN "True" ELSE "False"

\* The condition of the date comprehension for one review, evaluated left to
\* right with short-circuit: "keep", "drop", or the exception it raises.
DateTest(review, sd, ed) ==
    LET ts == to_datetime(review.Timestamp)
        lo == IF sd = NoneDT THEN "True"
              ELSE IF ts.kind = "ValueError" THEN "ValueError"
              ELSE CompareGE(ts, sd)
        hi == IF ed = NoneDT THEN "True"
              ELSE IF ts.kind = "ValueError" THEN "ValueError"
              ELSE CompareLE(ts, ed)
    IN  IF lo \in {"ValueError", "TypeError"} THEN lo
        ELSE IF lo = "False" THEN "drop"
        ELSE IF hi \in {"ValueError", "TypeError"} THEN hi
        ELSE IF hi = "False" THEN "drop"
        ELSE "keep"

\* Variant of ParseBound that treats a date it cannot parse as no bound.
ParseBound_Coerce(param) ==
    IF Truthy(param) /\ to_datetime(param).kind # "ValueError"
    THEN to_datetime(param) ELSE NoneDT

\* `if start_date: start_date = pd.to_datetime(start_date)`, likewise end_date.
ParseBound(param) == IF Truthy(param) THEN to_datetime(param) ELSE NoneDT

\* The date-range block: the exception that leaves it (None when none does)
\* and the filtered list.
DateFilter(filtered, start_date, end_date) ==
    IF ~(Truthy(start_date) \/ Truthy(end_date))
    THEN [raised |-> None, out |-> filtered]
    ELSE
      LET sd == ParseBound(start_date)
          ed == ParseBound(end_date)
          test(i) == DateTest(filtered[i], sd, ed)
          bad == { i \in 1 .. Len(filtered) : test(i) \in {"ValueError", "TypeError"} }
          first == CHOOSE i \in bad : \A j \in bad : i <= j
      IN  IF sd.kind = "ValueError" \/ ed.kind = "ValueError"
          THEN [raised |-> "ValueError", out |-> <<>>]
          ELSE IF bad # {}
          THEN [raised |-> test(first), out |-> <<>>]
          ELSE [raised |-> None,
                out |-> SelectSeq(filtered, LAMBDA review : DateTest(review, sd, ed) = "keep")]

\* The response record built for one stored review.
review_data(review) ==
    [ReviewId |-> review.ReviewId, ReviewBody |-> review.ReviewBody,
     Location |-> review.Location, Timestamp |-> review.Timestamp,
     sentiment |-> analyze_sentiment(review.ReviewBody)]

\* Variant of InsertDesc that is not stable: x goes before its equals.
InsertDesc_Unstable(sorted, x) ==
    LET notlarger == { k \in 1 .. Len(sorted) : sorted[k].sentiment.compound <= x.sentiment.compound }
        pos == IF notlarger = {} THEN Len(sorted) + 1
               ELSE CHOOSE k \in notlarger : \A j \in notlarger : k <= j
    IN  SubSeq(sorted, 1, pos - 1) \o <<x>> \o SubSeq(sorted, pos, Len(sorted))

\* list.sort(key=compound, reverse=True): descending and stable.  Insertion
\* of x goes after every element whose key is >= x's key.
InsertDesc(sorted, x) ==
    LET smaller == { k \in 1 .. Len(sorted) : sorted[k].sentiment.compound < x.sentiment.compound }
        pos == IF smaller = {} THEN Len(sorted) + 1
               ELSE CHOOSE k \in smaller : \A j \in smaller : k <= j
    IN  SubSeq(sorted, 1, pos - 1) \o <<x>> \o SubSeq(sorted, pos, Len(sorted))

RECURSIVE SortDesc(_)
SortDesc(results) ==
    IF results = <<>> THEN <<>>
    ELSE InsertDesc(SortDesc(SubSeq(results, 1, Len(results) - 1)), results[Len(results)])

\* ------------------------------------------------- json.dumps(..., indent=2)
\* Length of repr() of a score.
FloatLen(v) == IF v = 0 \/ v = 10000 THEN 3 ELSE IF v < 0 THEN 7 ELSE 6

\* Length of one `"key": value` line at the given indentation.
MemberLen(indent, key, vlen) == indent + Len(key) + 4 + vlen

\* Length of the four review fields written at the given indentation,
\* separators included (a uuid prints as 36 characters).
ReviewFieldsLen(indent, r) ==
    MemberLen(indent, "ReviewId", 38) + 2
    + MemberLen(indent, "ReviewBody", Len(r.ReviewBody) + 2) + 2
    + MemberLen(indent, "Location", Len(r.Location) + 2) + 2
    + MemberLen(indent, "Timestamp", Len(r.Timestamp) + 2)

SentimentLen(indent, s) ==
    2 + MemberLen(indent + 2, "neg", FloatLen(s.neg)) + 2
      + MemberLen(indent + 2, "neu", FloatLen(s.neu)) + 2
      + MemberLen(indent + 2, "pos", FloatLen(s.pos)) + 2
      + MemberLen(indent + 2, "compound", FloatLen(s.compound))
      + 1 + indent + 1

\* One element of the result array, from its "  {" to its "  }".
ResultLen(r) ==
    4 + ReviewFieldsLen(4, r) + 2
      + MemberLen(4, "sentiment", SentimentLen(4, r.sentiment))
      + 4

RECURSIVE SumResultLen(_)
SumResultLen(results) ==
    IF results = <<>> THEN 0
    ELSE ResultLen(Head(results)) + SumResultLen(Tail(results))

\* len(json.dumps(results, indent=2).encode("utf-8"))
ResultsBodyLen(results) ==
    IF results = <<>> THEN 2
    ELSE 2 + SumResultLen(results) + 2 * (Len(results) - 1) + 2

\* len(json.dumps(new_review, indent=2).encode("utf-8"))
ReviewBodyLen(new_review) == 2 + ReviewFieldsLen(2, new_review) + 2

InvalidDateBody == "{\"error\": \"Invalid date format\"}"
RequiredBody == "{\"error\": \"Location and ReviewBody are required\"}"
InvalidLocationBody == "{\"error\": \"Invalid location\"}"

\* Variant of BadRequest that reports the error under a success status.
BadRequest_OK(body) ==
    [status |-> "200 OK",
     headers |-> << <<"Content-Type", "application/json">> >>,
     body |-> body, raised |-> None]

\* The 400 responses: only a Content-Type header is passed to start_response.
BadRequest(body) ==
    [status |-> "400 Bad Request",
     headers |-> << <<"Content-Type", "application/json">> >>,
     body |-> body, raised |-> None]

\* An exception the handler does not catch: start_response is never called.
Uncaught(exc) ==
    [status |-> NotStarted, headers |-> <<>>, body |-> None, raised |-> exc]

\* The GET branch, from the query string to the returned body.
GetResponse(store, query) ==
    LET location == get_param(query, "location")
        start_date == get_param(query, "start_date")
        end_date == get_param(query, "end_date")
        dated == DateFilter(LocationFilter(store, location), start_date, end_date)
        results == SortDesc([i \in 1 .. Len(dated.out) |-> review_data(dated.out[i])])
    IN  IF dated.raised = "ValueError" THEN BadRequest(InvalidDateBody)
        ELSE IF dated.raised # None THEN Uncaught(dated.raised)
        ELSE [status |-> "200 OK",
              headers |-> << <<"Content-Type", "application/json">>,
                             <<"Content-Length", ResultsBodyLen(results)>> >>,
              body |-> results, raised |-> None]

\* Variant of StoreAfterGet in which the unfiltered list is the store itself
\* and is sorted in place.
StoreAfterGet_InPlace(store, resp) ==
    IF resp.status = "200 OK" /\ Len(resp.body) = Len(store)
    THEN [i \in 1 .. Len(store) |->
            [ReviewId |-> resp.body[i].ReviewId, ReviewBody |-> resp.body[i].ReviewBody,
             Location |-> resp.body[i].Location, Timestamp |-> resp.body[i].Timestamp]]
    ELSE store

\* self.reviews after the GET branch: the comprehensions and `results` are new
\* lists of new dicts, so the sort and the sentiment field never reach it.
StoreAfterGet(store, resp) == store

Get(location, start_date, end_date) ==
    LET query == [location |-> location, start_date |-> start_date, end_date |-> end_date]
        resp == GetResponse(reviews, query)
    IN  /\ request' = [method |-> "GET", query |-> query]
        /\ before' = reviews
        /\ response' = resp
        /\ reviews' = StoreAfterGet(reviews, resp)
        /\ UNCHANGED <<issued, created>>

\* ------------------------------------------------------------ POST handler
\* uuid.uuid4(): a value no earlier call returned.
uuid4 == UUIDs \ issued

\* Variants of AppendReview: insert at the front; rebind the list to the new review.
AppendReview_Front(store, new_review) == <<new_review>> \o store
AppendReview_Rebind(store, new_review) == <<new_review>>

\* self.reviews.append(new_review)
AppendReview(store, new_review) == Append(store, new_review)

\* Variant of LocationRejected that lets an unknown city through.
LocationRejected_Lax(location) ==
    location \notin VALID_LOCATIONS \cup { "Nowhere" }

\* `location not in self.VALID_LOCATIONS`
LocationRejected(location) == location \notin VALID_LOCATIONS

\* The 201 path for one clock reading and one generated id.
Created(location, review_body, now, review_id) ==
    LET new_review == [ReviewId |-> review_id, ReviewBody |-> review_body,
                       Location |-> location, Timestamp |-> strftime(now)]
    IN  /\ reviews' = AppendReview(reviews, new_review)
        /\ issued' = issued \cup {review_id}
        /\ created' = created \cup {new_review}
        /\ response' =
              [status |-> "201 Created",
               headers |-> << <<"Content-Type", "application/json">>,
                              <<"Content-Length", ReviewBodyLen(new_review)>> >>,
               body |-> new_review, raised |-> None]

Post(Location, ReviewBody) ==
    LET form == [Location |-> Location, ReviewBody |-> ReviewBody]
        location == get_param(form, "Location")
        review_body == get_param(form, "ReviewBody")
    IN  /\ request' = [method |-> "POST", form |-> form]
        /\ before' = reviews
        /\ IF ~Truthy(location) \/ ~Truthy(review_body)
           THEN /\ response' = BadRequest(RequiredBody)
                /\ UNCHANGED <<reviews, issued, created>>
           ELSE IF LocationRejected(location)
           THEN /\ response' = BadRequest(InvalidLocationBody)
                /\ UNCHANGED <<reviews, issued, created>>
           ELSE /\ Len(reviews) < MaxReviews
                /\ \E now \in Clock, review_id \in uuid4 :
                      Created(location, review_body, now, review_id)

\* ------------------------------------------------------------ other methods
\* Neither `if` matches: the callable falls off its end and returns None
\* without calling start_response.
Other(method) ==
    /\ request' = [method |-> method]
    /\ before' = reviews
    /\ response' = [status |-> NotStarted, headers |-> <<>>, body |-> None, raised |-> None]
    /\ UNCHANGED <<reviews, issued, created>>

Next ==
    \/ \E location \in QueryLocations, start_date \in DateInputs, end_date \in DateInputs :
         Get(location, start_date, end_date)
    \/ \E Location \in LocationInputs, ReviewBody \in BodyInputs :
         Post(Location, ReviewBody)
    \/ \E method \in OtherMethods : Other(method)

Spec == Init /\ [][Next]_vars

\* ================================================================ properties
\* A parameter the client supplied with a non-blank value.
Given(x) == x # Absent /\ x # ""

IsGet == request.method = "GET"
IsPost == request.method = "POST"

\* The four stored fields of a review or of a response record.
Stored(r) ==
    [ReviewId |-> r.ReviewId, ReviewBody |-> r.ReviewBody,
     Location |-> r.Location, Timestamp |-> r.Timestamp]

\* Position in the store of the review with the given id.
Pos(store, id) == CHOOSE k \in 1 .. Len(store) : store[k].ReviewId = id

HasHeader(name, value) ==
    \E i \in 1 .. Len(response.headers) :
        response.headers[i][1] = name /\ response.headers[i][2] = value

\* C1: a POST with both fields non-empty and a valid Location answers 201 and
\* appends exactly the new review as last element of the store, every earlier
\* review staying in place, with a ReviewId no stored review had.
C1_PostAppends ==
    (IsPost /\ Given(request.form.Location) /\ Given(request.form.ReviewBody)
            /\ request.form.Location \in VALID_LOCATIONS)
    => /\ response.status = "201 Created"
       /\ Len(reviews) = Len(before) + 1
       /\ \A i \in 1 .. Len(before) : reviews[i] = before[i]
       /\ reviews[Len(reviews)] = response.body
       /\ response.body.Location = request.form.Location
       /\ response.body.ReviewBody = request.form.ReviewBody
       /\ \A i \in 1 .. Len(before) : before[i].ReviewId # response.body.ReviewId

C1_Witness ==
    IsPost /\ response.status = "201 Created" /\ Len(before) >= 1

C3_InvalidLocation ==
    (IsPost /\ Given(request.form.Location) /\ Given(request.form.ReviewBody)
            /\ request.form.Location \notin VALID_LOCATIONS)
    => /\ response.status = "400 Bad Request"
       /\ response.body = InvalidLocationBody
       /\ reviews = before

C3_Witness ==
    /\ IsPost /\ request.form.Location = "Nowhere" /\ request.form.ReviewBody = "good"
    /\ response.status = "400 Bad Request" /\ Len(before) >= 1

\* The date parameters of the last GET parse: none that was given is rejected.
DatesParse ==
    /\ Given(request.query.start_date) => to_datetime(request.query.start_date).kind # "ValueError"
    /\ Given(request.query.end_date) => to_datetime(request.query.end_date).kind # "ValueError"

\* The filter of C4 on one stored review, both bounds inclusive.
Satisfies(review) ==
    /\ Given(request.query.location) => review.Location = request.query.location
    /\ Given(request.query.start_date)
         => to_datetime(review.Timestamp).t >= to_datetime(request.query.start_date).t
    /\ Given(request.query.end_date)
         => to_datetime(review.Timestamp).t <= to_datetime(request.query.end_date).t

\* C4: every GET whose date parameters parse answers 200 with exactly the
\* stored reviews that pass the location and inclusive date-range filter,
\* none added and none duplicated.
C4_ExactFilter ==
    (IsGet /\ DatesParse)
    => /\ response.status = "200 OK"
       /\ Len(response.body) = Cardinality({ k \in 1 .. Len(before) : Satisfies(before[k]) })
       /\ { Stored(response.body[i]) : i \in 1 .. Len(response.body) }
            = { before[k] : k \in { k \in 1 .. Len(before) : Satisfies(before[k]) } }

\* C5: the records of a 200 answer to a GET are in descending order of
\* sentiment.compound, and records with equal compound keep their store order.
C5_SortedStable ==
    (IsGet /\ response.status = "200 OK")
    => \A i, j \in 1 .. Len(response.body) :
         i < j =>
           /\ response.body[i].sentiment.compound >= response.body[j].sentiment.compound
           /\ response.body[i].sentiment.compound = response.body[j].sentiment.compound
                => Pos(before, response.body[i].ReviewId) < Pos(before, response.body[j].ReviewId)

C5_Witness ==
    /\ IsGet /\ response.status = "200 OK" /\ Len(response.body) = 2
    /\ response.body[1].sentiment.compound = response.body[2].sentiment.compound

\* A date parameter that was given and does not parse.
Unparseable(x) == Given(x) /\ to_datetime(x).kind = "ValueError"

\* C6: a GET with a start_date or end_date that does not parse answers 400
\* with the "Invalid date format" error and no records, whatever the other
\* parameters and the store hold; a GET with no date parameter never does.
C6_InvalidDate ==
    IsGet =>
      /\ (Unparseable(request.query.start_date) \/ Unparseable(request.query.end_date))
           => (response.status = "400 Bad Request" /\ response.body = InvalidDateBody)
      /\ (~Given(request.query.start_date) /\ ~Given(request.query.end_date))
           => response.status = "200 OK"

C6_Witness ==
    /\ IsGet /\ Given(request.query.location)
    /\ request.query.start_date = "2023-01-01" /\ request.query.end_date = "not-a-date"
    /\ response.status = "400 Bad Request" /\ Len(before) >= 1

\* Byte length of the body the handler returned.
BodyBytes ==
    IF response.status = "400 Bad Request" THEN Len(response.body)
    ELSE IF response.status = "201 Created" THEN ReviewBodyLen(response.body)
    ELSE ResultsBodyLen(response.body)

\* C7: every response, 200, 201 and each 400 alike, carries Content-Type:
\* application/json and a Content-Length equal to the byte length of its body.
C7_Headers ==
    response.status # NotStarted
    => /\ HasHeader("Content-Type", "application/json")
       /\ HasHeader("Content-Length", BodyBytes)

\* C8: once a POST has answered 201 for a review with Location L, every later
\* GET with location=L and no date parameters answers 200 with a record
\* carrying that review's ReviewId, ReviewBody, Location and Timestamp.
C8_CreatedStaysVisible ==
    (IsGet /\ Given(request.query.location)
           /\ ~Given(request.query.start_date) /\ ~Given(request.query.end_date))
    => /\ response.status = "200 OK"
       /\ \A r \in created :
            r.Location = request.query.location
              => \E i \in 1 .. Len(response.body) : Stored(response.body[i]) = r

C8_Witness ==
    /\ IsGet /\ request.query.location = "San Diego, California"
    /\ ~Given(request.query.start_date) /\ ~Given(request.query.end_date)
    /\ Cardinality(created) = 2 /\ response.status = "200 OK"

\* C9: a GET is read-only: whether it answers 200 or 400, the store holds the
\* same reviews, with the same fields and in the same order, as before it.
C9_GetReadOnly == IsGet => reviews = before

C9_Witness ==
    /\ IsGet /\ response.status = "200 OK" /\ Len(response.body) = 2
    /\ response.body[1].ReviewId = before[2].ReviewId

\* C10: a request whose method is neither GET nor POST gets a response (a
\* status is started and a body is returned) and leaves the store unchanged.
C10_OtherMethod ==
    request.method \in OtherMethods
    => /\ response.status # NotStarted
       /\ response.body # None
       /\ reviews = before

====
